---- MODULE Spec2Model ----
(***************************************************************************)
(* Model of the onboarding routes of gitpoap-backend                       *)
(* (src/src/routes/onboarding.ts):                                         *)
(*   - GET /github/repos : aggregation of the PR search, the personal      *)
(*     listing and the organization listings into one list (SpecRepos);    *)
(*   - POST /intake-form : validation, record write, image uploads,        *)
(*     record update, count, notifications, response (SpecIntake).         *)
(* An optional JavaScript value is a set with at most one element:         *)
(* None is undefined, Some(x) is x.                                        *)
(***************************************************************************)
EXTENDS Integers, Sequences, FiniteSets, TLC

\* ------------------------------------------------------------------ bounds
\* repository ids are 1..MaxId
MaxId == 3
\* records returned by all GitHub listings of one request, in total
MaxRecords == 3
\* organizations the user belongs to
MaxOrgs == 2
\* concurrent POST /intake-form requests
MaxReqs == 2
\* images attached to one request (the route accepts up to MaxUploadImages)
MaxImages == 2
\* the clock runs from 1 to MaxClock seconds
MaxClock == 2
\* formatRepos is given at most MaxRepoList repositories
MaxRepoList == 7
\* at most MaxCalls resolver calls run at the same time
MaxCalls == 2
\* the date runs from 1 to MaxDay
MaxDay == 2

\* ------------------------------------------------------- program constants
\* onboarding.ts:536  repo.stargazers_count < 2
MinStars == 2
\* onboarding.ts:317  upload.array('images', 5)
MaxUploadImages == 5
\* onboarding.ts:249  i < 5, and :252  repos.length - 5
ListedRepos == 5

None == {}
Some(x) == {x}

Ids == 1..MaxId

RECURSIVE SumLen(_)
SumLen(ss) == IF ss = <<>> THEN 0 ELSE Len(Head(ss)) + SumLen(Tail(ss))

RECURSIVE Flatten(_)
\* orgsWithRepos.map(org => org.data).reduce((acc, repos) => [...acc, ...repos], [])
Flatten(ss) == IF ss = <<>> THEN <<>> ELSE Head(ss) \o Flatten(Tail(ss))

\* ------------------------------------------------------------ GitHub data
ViewerPermissions == {"ADMIN", "MAINTAIN", "WRITE", "TRIAGE", "READ", "NONE"}

Flags == {"admin", "maintain", "push", "triage", "pull"}

\* a permissions object with pull and one more flag set
OnlyFlag(f) == [g \in Flags |-> (g = f) \/ (g = "pull")]

\* PR search records the model draws from: a fork, and a non-fork of every
\* permission level, all with no stars
PrSamples ==
  [databaseId : Ids, isFork : {TRUE}, viewerPermission : {"READ"}, stargazerCount : {0}]
  \cup
  [databaseId : Ids, isFork : {FALSE}, viewerPermission : ViewerPermissions,
   stargazerCount : {0}]

\* listing records the model draws from: eligible ones, and ones with exactly
\* one reason to be rejected
ListingSamples ==
  [id : Ids, fork : {FALSE}, stargazers_count : {Some(MinStars)},
   permissions : {Some(OnlyFlag(f)) : f \in {"admin", "maintain", "push"}}]
  \cup
  [id : Ids, fork : {TRUE}, stargazers_count : {Some(MinStars)},
   permissions : {Some(OnlyFlag("push"))}]
  \cup
  [id : Ids, fork : {FALSE}, stargazers_count : {None, Some(0), Some(MinStars - 1)},
   permissions : {Some(OnlyFlag("push"))}]
  \cup
  [id : Ids, fork : {FALSE}, stargazers_count : {Some(MinStars)},
   permissions : {None, Some(OnlyFlag("pull"))}]

\* The records of one listing, each given a name that tells its listing and
\* its position in it (the program copies the name and never reads it).
NamedPr(s) ==
  [i \in 1..Len(s) |->
    [name |-> [src |-> "pr", org |-> 0, pos |-> i],
     databaseId |-> s[i].databaseId, isFork |-> s[i].isFork,
     viewerPermission |-> s[i].viewerPermission,
     stargazerCount |-> s[i].stargazerCount]]

NamedListing(s, src, org) ==
  [i \in 1..Len(s) |->
    [name |-> [src |-> src, org |-> org, pos |-> i],
     id |-> s[i].id, fork |-> s[i].fork,
     stargazers_count |-> s[i].stargazers_count,
     permissions |-> s[i].permissions]]

\* ------------------------------------------------------------- the adapters
getMappedPrRepo(pr) ==
  [name |-> pr.name,
   githubRepoId |-> pr.databaseId,
   permissions |-> Some(
     [admin |-> pr.viewerPermission \in {"ADMIN"},
      maintain |-> pr.viewerPermission \in {"MAINTAIN", "ADMIN"},
      push |-> pr.viewerPermission \in {"WRITE", "MAINTAIN", "ADMIN"},
      triage |-> pr.viewerPermission \in {"TRIAGE", "WRITE", "MAINTAIN", "ADMIN"},
      pull |-> pr.viewerPermission \in {"READ", "WRITE", "MAINTAIN", "ADMIN"}])]

getMappedOrgRepo(repo) ==
  [name |-> repo.name, githubRepoId |-> repo.id, permissions |-> repo.permissions]

getMappedRepo(repo) ==
  [name |-> repo.name, githubRepoId |-> repo.id, permissions |-> repo.permissions]

MapSeq(Op(_), s) == [i \in 1..Len(s) |-> Op(s[i])]

\* ---------------------------------------------------------- the three passes
\* Each pass is a filter whose callback reads and updates foundRepoIds and
\* rejectedRepoIds; acc = [kept, found, rejected].

\* a PR pass that does not record the ids it has seen
PrStepNoMark(acc, e) ==
  IF e.isFork
    THEN [acc EXCEPT !.rejected = @ \cup {e.databaseId}]
    ELSE [acc EXCEPT !.kept = Append(@, e)]

\* a PR pass that records an id as seen before the fork check
PrStepMarkFirst(acc, e) ==
  IF e.isFork
    THEN [acc EXCEPT !.rejected = @ \cup {e.databaseId},
                     !.found = @ \cup {e.databaseId}]
    ELSE [kept |-> IF e.databaseId \in acc.found THEN acc.kept ELSE Append(acc.kept, e),
          found |-> acc.found \cup {e.databaseId},
          rejected |-> acc.rejected]

PrStep(acc, e) ==
  IF e.isFork
    THEN [acc EXCEPT !.rejected = @ \cup {e.databaseId}]
    ELSE [kept |-> IF e.databaseId \in acc.found THEN acc.kept ELSE Append(acc.kept, e),
          found |-> acc.found \cup {e.databaseId},
          rejected |-> acc.rejected]

RECURSIVE PrScan(_, _, _)
PrScan(edges, i, acc) ==
  IF i > Len(edges) THEN acc ELSE PrScan(edges, i + 1, PrStep(acc, edges[i]))

\* !repo.stargazers_count || repo.stargazers_count < 2
TooFewStars(repo) ==
  \/ repo.stargazers_count = None
  \/ \E n \in repo.stargazers_count : n = 0 \/ n < MinStars

\* repo.permissions?.admin || repo.permissions?.maintain || repo.permissions?.push
hasPermission(repo) ==
  \E p \in repo.permissions : p.admin \/ p.maintain \/ p.push

\* a listing pass without the fork check
ListingStepNoFork(acc, repo) ==
  LET isFound == repo.id \in acc.found
      found == acc.found \cup {repo.id}
  IN  IF isFound THEN [acc EXCEPT !.found = found]
      ELSE IF TooFewStars(repo)
        THEN [acc EXCEPT !.found = found, !.rejected = @ \cup {repo.id}]
      ELSE IF hasPermission(repo)
        THEN [acc EXCEPT !.found = found, !.kept = Append(@, repo)]
      ELSE [acc EXCEPT !.found = found]

\* a listing pass without the star check
ListingStepNoStars(acc, repo) ==
  LET isFound == repo.id \in acc.found
      found == acc.found \cup {repo.id}
  IN  IF isFound THEN [acc EXCEPT !.found = found]
      ELSE IF repo.fork
        THEN [acc EXCEPT !.found = found, !.rejected = @ \cup {repo.id}]
      ELSE IF hasPermission(repo)
        THEN [acc EXCEPT !.found = found, !.kept = Append(@, repo)]
      ELSE [acc EXCEPT !.found = found]

\* a listing pass that records an id as seen only when it keeps the record
ListingStepMarkKept(acc, repo) ==
  IF repo.id \in acc.found THEN acc
  ELSE IF repo.fork \/ TooFewStars(repo)
    THEN [acc EXCEPT !.rejected = @ \cup {repo.id}]
  ELSE IF hasPermission(repo)
    THEN [acc EXCEPT !.found = @ \cup {repo.id}, !.kept = Append(@, repo)]
  ELSE acc

ListingStep(acc, repo) ==
  LET isFound == repo.id \in acc.found
      found == acc.found \cup {repo.id}
  IN  IF isFound THEN [acc EXCEPT !.found = found]
      ELSE IF repo.fork
        THEN [acc EXCEPT !.found = found, !.rejected = @ \cup {repo.id}]
      ELSE IF TooFewStars(repo)
        THEN [acc EXCEPT !.found = found, !.rejected = @ \cup {repo.id}]
      ELSE IF hasPermission(repo)
        THEN [acc EXCEPT !.found = found, !.kept = Append(@, repo)]
      ELSE [acc EXCEPT !.found = found]

RECURSIVE ListingScan(_, _, _)
ListingScan(list, i, acc) ==
  IF i > Len(list) THEN acc ELSE ListingScan(list, i + 1, ListingStep(acc, list[i]))

\* the personal pass run before the organization pass
MergeListingsUserFirst(found, rejected, orgRaw, userRaw) ==
  LET user == ListingScan(userRaw, 1, [kept |-> <<>>, found |-> found, rejected |-> rejected])
      org == ListingScan(orgRaw, 1, [kept |-> <<>>, found |-> user.found,
                                     rejected |-> user.rejected])
  IN  [mappedOrgRepos |-> MapSeq(getMappedOrgRepo, org.kept),
       mappedRepos |-> MapSeq(getMappedRepo, user.kept),
       found |-> org.found, rejected |-> org.rejected]

\* lines 525-564: the organization pass, then the personal pass
MergeListings(found, rejected, orgRaw, userRaw) ==
  LET org == ListingScan(orgRaw, 1, [kept |-> <<>>, found |-> found, rejected |-> rejected])
      user == ListingScan(userRaw, 1, [kept |-> <<>>, found |-> org.found,
                                       rejected |-> org.rejected])
  IN  [mappedOrgRepos |-> MapSeq(getMappedOrgRepo, org.kept),
       mappedRepos |-> MapSeq(getMappedRepo, user.kept),
       found |-> user.found, rejected |-> user.rejected]

\* the PR segment put first
AllReposPrFirst(user, org, pr) == pr \o user \o org

\* [...mappedRepos, ...mappedOrgRepos, ...mappedPrRepos]
AllRepos(user, org, pr) == user \o org \o pr

\* what the caller sees when the async handler throws: the rejection is not
\* handled by the route, so no response is sent (0) or the framework's error
\* handler answers 500
UnhandledOutcomes == {0, 500}

\* ------------------------------------------------------------------- state
VARIABLES
  pc,               \* GET /github/repos: the await the handler is at
  publicPrs,        \* publicPrs.search.edges
  repos,            \* repos.data
  orgFetch,         \* per organization: "inflight", "ok" or "failed"
  orgsWithRepos,    \* per organization: the data of listForOrg
  foundRepoIds,
  rejectedRepoIds,
  mappedPrRepos,
  mappedRepos,
  mappedOrgRepos,
  response,         \* [status, repos, message]; status 0: nothing sent
  error             \* the GitHub call whose failure the handler met, "" if none

reposVars == <<pc, publicPrs, repos, orgFetch, orgsWithRepos, foundRepoIds,
               rejectedRepoIds, mappedPrRepos, mappedRepos, mappedOrgRepos, response,
               error>>

VARIABLES
  now,              \* the clock, in seconds
  table,            \* the intake-form table: items [pk, ts, images, isComplete]
  bucket,           \* keys of the objects in the intake-form bucket
  ipc,              \* POST /intake-form, per request: the await the handler is at
  body,             \* req.body
  files,            \* req.files: [n, ok]
  unixTime,
  urls,
  tableCount,
  ires,             \* the response: [status, issues, msg, queueNumber]
  calls,            \* the calls the request has made to its collaborators
  failedAt,         \* the call whose failure the handler met, "" if none
  mail              \* how each notification call of the request ended

intakeVars == <<now, table, bucket, ipc, body, files, unixTime, urls, tableCount, ires,
                calls, failedAt, mail>>

VARIABLES
  fmtRepos,         \* formatRepos: the argument, a list of full_name strings
  fmtResult         \* formatRepos: [state, value], the string returned

formatVars == <<fmtRepos, fmtResult>>

VARIABLES
  today,            \* MembershipResolver: DateTime.now()
  memberships,      \* the membership table: rows [teamId, addressId, role,
                    \* acceptanceStatus, joinedOn]
  mpc,              \* per resolver call: the await the call is at
  args,             \* per call: [op, payload, teamId, address]
  addressRecord,    \* per call: the row prisma.address.findUnique returned
  result            \* per call: the payload returned, [membership, error]

membershipVars == <<today, memberships, mpc, args, addressRecord, result>>

vars == <<reposVars, intakeVars, formatVars, membershipVars>>

NoResponse == [status |-> 0, repos |-> <<>>, message |-> ""]

Fetched == Len(publicPrs) + Len(repos) + SumLen(orgsWithRepos)

InitRepos ==
  /\ pc = "getAuthenticated"
  /\ publicPrs = <<>>
  /\ repos = <<>>
  /\ orgFetch = <<>>
  /\ orgsWithRepos = <<>>
  /\ foundRepoIds = {}
  /\ rejectedRepoIds = {}
  /\ mappedPrRepos = <<>>
  /\ mappedRepos = <<>>
  /\ mappedOrgRepos = <<>>
  /\ response = NoResponse
  /\ error = ""

\* lines 565-569
Respond400(call) ==
  /\ pc' = "done"
  /\ error' = call
  /\ response' = [status |-> 400, repos |-> <<>>,
                  message |-> "Failed to fetch repos for GitHub user"]

\* line 471, outside the try block
GetAuthenticated ==
  /\ UNCHANGED <<intakeVars, formatVars, membershipVars>>
  /\ pc = "getAuthenticated"
  /\ \/ /\ pc' = "graphql"
        /\ UNCHANGED <<response, error>>
     \/ /\ pc' = "threw"
        /\ error' = "getAuthenticated"
        /\ \E s \in UnhandledOutcomes : response' = [NoResponse EXCEPT !.status = s]
  /\ UNCHANGED <<publicPrs, repos, orgFetch, orgsWithRepos, foundRepoIds,
                 rejectedRepoIds, mappedPrRepos, mappedRepos, mappedOrgRepos>>

\* lines 484-499
GraphqlPublicPrs ==
  /\ UNCHANGED <<intakeVars, formatVars, membershipVars>>
  /\ pc = "graphql"
  /\ \/ \E k \in 0..(MaxRecords - Fetched) : \E s \in [1..k -> PrSamples] :
          LET edges == NamedPr(s)
              acc == PrScan(edges, 1, [kept |-> <<>>, found |-> foundRepoIds,
                                       rejected |-> rejectedRepoIds])
          IN  /\ publicPrs' = edges
              /\ foundRepoIds' = acc.found
              /\ rejectedRepoIds' = acc.rejected
              /\ mappedPrRepos' = MapSeq(getMappedPrRepo, acc.kept)
              /\ pc' = "listForAuthenticatedUser"
              /\ UNCHANGED <<response, error>>
     \/ /\ Respond400("graphql")
        /\ UNCHANGED <<publicPrs, foundRepoIds, rejectedRepoIds, mappedPrRepos>>
  /\ UNCHANGED <<repos, orgFetch, orgsWithRepos, mappedRepos, mappedOrgRepos>>

\* lines 502-505
ListForAuthenticatedUser ==
  /\ UNCHANGED <<intakeVars, formatVars, membershipVars>>
  /\ pc = "listForAuthenticatedUser"
  /\ \/ \E k \in 0..(MaxRecords - Fetched) : \E s \in [1..k -> ListingSamples] :
          /\ repos' = NamedListing(s, "user", 0)
          /\ pc' = "listForUser"
          /\ UNCHANGED <<response, error>>
     \/ /\ Respond400("listForAuthenticatedUser")
        /\ UNCHANGED repos
  /\ UNCHANGED <<publicPrs, orgFetch, orgsWithRepos, foundRepoIds, rejectedRepoIds,
                 mappedPrRepos, mappedRepos, mappedOrgRepos>>

\* lines 508-522: the organizations, and one listForOrg call started for each
ListOrgsForUser ==
  /\ UNCHANGED <<intakeVars, formatVars, membershipVars>>
  /\ pc = "listForUser"
  /\ \/ \E n \in 0..MaxOrgs :
          /\ orgFetch' = [i \in 1..n |-> "inflight"]
          /\ orgsWithRepos' = [i \in 1..n |-> <<>>]
          /\ pc' = "promiseAll"
          /\ UNCHANGED <<response, error>>
     \/ /\ Respond400("listForUser")
        /\ UNCHANGED <<orgFetch, orgsWithRepos>>
  /\ UNCHANGED <<publicPrs, repos, foundRepoIds, rejectedRepoIds,
                 mappedPrRepos, mappedRepos, mappedOrgRepos>>

\* lines 517-520: one of the concurrent listForOrg calls settles
ListForOrg ==
  /\ UNCHANGED <<intakeVars, formatVars, membershipVars>>
  /\ \E i \in DOMAIN orgFetch :
       /\ orgFetch[i] = "inflight"
       /\ \/ \E k \in 0..(MaxRecords - Fetched) : \E s \in [1..k -> ListingSamples] :
               /\ orgFetch' = [orgFetch EXCEPT ![i] = "ok"]
               /\ orgsWithRepos' = [orgsWithRepos EXCEPT ![i] = NamedListing(s, "org", i)]
          \/ /\ orgFetch' = [orgFetch EXCEPT ![i] = "failed"]
             /\ UNCHANGED orgsWithRepos
  /\ UNCHANGED <<pc, publicPrs, repos, foundRepoIds, rejectedRepoIds,
                 mappedPrRepos, mappedRepos, mappedOrgRepos, response, error>>

\* a join that lets the handler go on as soon as one call has returned
JoinedAny(fetch) == \E i \in DOMAIN fetch : fetch[i] = "ok"

\* line 514: await Promise.all(...) resolves when every call has returned
Joined(fetch) == \A i \in DOMAIN fetch : fetch[i] = "ok"

\* lines 514-564, 571-581: every listForOrg call has returned
PromiseAllResolves ==
  /\ UNCHANGED <<intakeVars, formatVars, membershipVars>>
  /\ pc = "promiseAll"
  /\ Joined(orgFetch)
  /\ LET m == MergeListings(foundRepoIds, rejectedRepoIds, Flatten(orgsWithRepos), repos)
     IN  /\ mappedOrgRepos' = m.mappedOrgRepos
         /\ mappedRepos' = m.mappedRepos
         /\ foundRepoIds' = m.found
         /\ rejectedRepoIds' = m.rejected
         /\ response' = [status |-> 200,
                         repos |-> AllRepos(m.mappedRepos, m.mappedOrgRepos, mappedPrRepos),
                         message |-> ""]
  /\ pc' = "done"
  /\ UNCHANGED <<publicPrs, repos, orgFetch, orgsWithRepos, mappedPrRepos, error>>

\* lines 514-522, 565-569: one listForOrg call has failed
PromiseAllRejects ==
  /\ UNCHANGED <<intakeVars, formatVars, membershipVars>>
  /\ pc = "promiseAll"
  /\ \E i \in DOMAIN orgFetch : orgFetch[i] = "failed"
  /\ Respond400("listForOrg")
  /\ UNCHANGED <<publicPrs, repos, orgFetch, orgsWithRepos, foundRepoIds, rejectedRepoIds,
                 mappedPrRepos, mappedRepos, mappedOrgRepos>>

NextRepos ==
  \/ GetAuthenticated
  \/ GraphqlPublicPrs
  \/ ListForAuthenticatedUser
  \/ ListOrgsForUser
  \/ ListForOrg
  \/ PromiseAllResolves
  \/ PromiseAllRejects


\* --------------------------------------------------------- POST /intake-form
Reqs == 1..MaxReqs

\* A string is a sequence of tokens; a template literal concatenates.
toString(n) == <<"0", "1", "2", "3", "4", "5", "6", "7", "8", "9">>[n + 1]

\* (email, githubHandle) pairs: the first two differ and give the same
\* `${email}-${githubHandle}`
Identities ==
  { [email |-> <<"a@b">>, githubHandle |-> <<"c", "-", "d">>],
    [email |-> <<"a@b", "-", "c">>, githubHandle |-> <<"d">>],
    [email |-> <<"a@b">>, githubHandle |-> <<"d">>] }

\* req.body.repos: not JSON, JSON of another shape, an empty array, an array
\* of selected repositories
ReposPayloads == {"notjson", "badshape", "empty", "list"}

\* request bodies the model draws from; fieldsOk tells whether the fields
\* other than the content of repos satisfy the form schema
BodySamples ==
  [email : {i.email : i \in Identities}, githubHandle : {i.githubHandle : i \in Identities},
   fieldsOk : {TRUE}, repos : ReposPayloads]
  \cup
  [email : {<<"a@b">>}, githubHandle : {<<"d">>}, fieldsOk : {FALSE},
   repos : {"notjson", "list"}]

SampledIdentity(b) == [email |-> b.email, githubHandle |-> b.githubHandle] \in Identities

FileSamples ==
  {f \in [n : 0..MaxImages, ok : BOOLEAN] : f.n <= MaxUploadImages /\ (f.n = 0 => f.ok)}

NoBody == [email |-> <<>>, githubHandle |-> <<>>, fieldsOk |-> FALSE, repos |-> "notjson"]
NoFiles == [n |-> 0, ok |-> TRUE]
NoIntakeResponse == [status |-> 0, issues |-> "", msg |-> "", queueNumber |-> None]

IntakeFormSchemaOk(b) == b.fieldsOk
JSONParses(b) == b.repos # "notjson"
IntakeFormReposSchemaOk(b) == b.repos \in {"empty", "list"}
IntakeFormImageFilesSchemaOk(f) == f.ok

\* lines 330-358: the check that fails first, "throw" when JSON.parse throws
Validate(b, f) ==
  IF ~IntakeFormSchemaOk(b) THEN "form"
  ELSE IF ~JSONParses(b) THEN "throw"
  ELSE IF ~IntakeFormReposSchemaOk(b) THEN "repos"
  ELSE IF ~IntakeFormImageFilesSchemaOk(f) THEN "files"
  ELSE "ok"

\* `${formData.email}-${formData.githubHandle}`
PartitionKey(b) == b.email \o <<"-">> \o b.githubHandle

\* an object key with the email before the handle
ObjectKeyEmailFirst(t, b, index) ==
  <<toString(t), "-">> \o b.email \o <<"-">> \o b.githubHandle \o <<"-", toString(index)>>

\* `${unixTime}-${req.body.githubHandle}-${req.body.email}-${index}`
ObjectKey(t, b, index) ==
  <<toString(t), "-">> \o b.githubHandle \o <<"-">> \o b.email \o <<"-", toString(index)>>

getS3URL(key) == <<"https://intake-form/">> \o key

createIntakeFormDocForDynamo(formData, timestamp) ==
  [pk |-> PartitionKey(formData), ts |-> timestamp, images |-> None,
   isComplete |-> Some(FALSE)]

\* PutItemCommand: the item replaces any item with the same key
PutItem(tbl, item) ==
  {x \in tbl : ~(x.pk = item.pk /\ x.ts = item.ts)} \cup {item}

\* an update that also marks the item complete
UpdateItemCompleting(tbl, pk, ts, imageUrls) ==
  {IF x.pk = pk /\ x.ts = ts
     THEN [x EXCEPT !.images = Some(imageUrls), !.isComplete = Some(TRUE)] ELSE x :
     x \in tbl}

\* UpdateItemCommand 'set images = :images': sets the attribute of the item
\* with the key, creating the item when there is none
UpdateItem(tbl, pk, ts, imageUrls) ==
  IF \E x \in tbl : x.pk = pk /\ x.ts = ts
    THEN {IF x.pk = pk /\ x.ts = ts THEN [x EXCEPT !.images = Some(imageUrls)] ELSE x :
            x \in tbl}
    ELSE tbl \cup {[pk |-> pk, ts |-> ts, images |-> Some(imageUrls), isComplete |-> None]}

\* a count of the complete records
ScanCountComplete(tbl) == Cardinality({x \in tbl : x.isComplete = Some(TRUE)})

\* ScanCommand Select COUNT with FilterExpression 'isComplete = :isComplete'
ScanCount(tbl) == Cardinality({x \in tbl : x.isComplete = Some(FALSE)})

Call(op, arg) == [op |-> op, arg |-> arg]

\* a handler that goes on after a failed write
AfterPutItemIgnoringError(ok, n) == IF n > 0 THEN "upload" ELSE "scan"

\* lines 361-378, 414-431: where the handler goes after the record write
AfterPutItem(ok, n) == IF ~ok THEN "fail" ELSE IF n > 0 THEN "upload" ELSE "scan"

\* a handler that goes on to the next image after a failed upload
AfterUploadContinuing(ok, index, n) ==
  IF index + 1 < n THEN "upload" ELSE IF ok THEN "updateItem" ELSE "fail"

\* lines 380-405: where the handler goes after the upload of image `index`
AfterUpload(ok, index, n) ==
  IF ~ok THEN "fail" ELSE IF index + 1 < n THEN "upload" ELSE "updateItem"

\* a handler that goes on after a failed update
AfterUpdateItemIgnoringError(ok) == "scan"

\* lines 404-431: where the handler goes after the record update
AfterUpdateItem(ok) == IF ~ok THEN "fail" ELSE "scan"

\* lines 244-257 as far as the handler is concerned: formatRepos reads
\* repos[0].full_name and throws on an empty list
formatReposThrows(b) == b.repos = "empty"

\* lines 438-441: the notification calls made once the count is known
EmailCalls(b) ==
  IF formatReposThrows(b) THEN <<>>
  ELSE <<Call("sendEmailWithTemplate", b.email), Call("sendEmail", <<"team@gitpoap.io">>)>>

\* lines 259-312: the postmark calls are not awaited, so the promise each
\* returns settles on its own: fulfilled, or rejected with nobody listening
PostmarkOutcomes == {"ok", "rejects"}

\* a handler that answers 400 when a notification is rejected
AfterEmailsFailing(m) == IF \E i \in DOMAIN m : m[i] = "rejects" THEN "fail" ELSE "respond"

\* lines 438-458: what the handler does once the notification calls are made
AfterEmails(m) == "respond"

InitIntake ==
  /\ now = 1
  /\ table = {}
  /\ bucket = {}
  /\ ipc = [r \in Reqs |-> "idle"]
  /\ body = [r \in Reqs |-> NoBody]
  /\ files = [r \in Reqs |-> NoFiles]
  /\ unixTime = [r \in Reqs |-> 0]
  /\ urls = [r \in Reqs |-> <<>>]
  /\ tableCount = [r \in Reqs |-> None]
  /\ ires = [r \in Reqs |-> NoIntakeResponse]
  /\ calls = [r \in Reqs |-> <<>>]
  /\ failedAt = [r \in Reqs |-> ""]
  /\ mail = [r \in Reqs |-> <<>>]

\* the responses of the handler
Issues400(which) == [status |-> 400, issues |-> which, msg |-> "", queueNumber |-> None]
Msg400(m) == [status |-> 400, issues |-> "", msg |-> m, queueNumber |-> None]
Ok200(count) ==
  [status |-> 200, issues |-> "", msg |-> "Successfully submitted intake form",
   queueNumber |-> count]

\* DateTime.local().toUnixInteger() advances
Tick ==
  /\ UNCHANGED <<reposVars, formatVars, membershipVars>>
  /\ now < MaxClock
  /\ now' = now + 1
  /\ UNCHANGED <<table, bucket, ipc, body, files, unixTime, urls, tableCount, ires, calls,
                 failedAt, mail>>

\* lines 318-363: a request arrives, is validated, and the record write is sent
Receive(r) ==
  /\ UNCHANGED <<reposVars, formatVars, membershipVars>>
  /\ ipc[r] = "idle"
  /\ \E b \in BodySamples, f \in FileSamples :
       /\ b.fieldsOk => SampledIdentity(b)
       /\ body' = [body EXCEPT ![r] = b]
       /\ files' = [files EXCEPT ![r] = f]
       /\ unixTime' = [unixTime EXCEPT ![r] = now]
       /\ LET v == Validate(b, f)
          IN  CASE v = "ok" ->
                     /\ ipc' = [ipc EXCEPT ![r] = "putItem"]
                     /\ calls' = [calls EXCEPT ![r] =
                                    <<Call("PutItem", PartitionKey(b) \o <<toString(now)>>)>>]
                     /\ UNCHANGED ires
                [] v = "throw" ->
                     /\ ipc' = [ipc EXCEPT ![r] = "threw"]
                     /\ \E st \in UnhandledOutcomes :
                          ires' = [ires EXCEPT ![r] = [NoIntakeResponse EXCEPT !.status = st]]
                     /\ UNCHANGED calls
                [] OTHER ->
                     /\ ipc' = [ipc EXCEPT ![r] = "done"]
                     /\ ires' = [ires EXCEPT ![r] = Issues400(v)]
                     /\ UNCHANGED calls
  /\ UNCHANGED <<now, table, bucket, urls, tableCount, failedAt, mail>>

\* lines 361-378, 414-431: the record write settles
PutItemSettles(r) ==
  /\ UNCHANGED <<reposVars, formatVars, membershipVars>>
  /\ ipc[r] = "putItem"
  /\ \E ok \in BOOLEAN :
       LET nxt == AfterPutItem(ok, files[r].n)
       IN  /\ table' = IF ok THEN PutItem(table, createIntakeFormDocForDynamo(body[r], unixTime[r]))
                       ELSE table
           /\ failedAt' = [failedAt EXCEPT ![r] = IF ok THEN @ ELSE "PutItem"]
           /\ CASE nxt = "fail" ->
                     /\ ipc' = [ipc EXCEPT ![r] = "done"]
                     /\ ires' = [ires EXCEPT ![r] = Msg400("Failed to submit intake form")]
                     /\ UNCHANGED calls
                [] nxt = "upload" ->
                     /\ ipc' = [ipc EXCEPT ![r] = "upload"]
                     /\ calls' = [calls EXCEPT ![r] =
                                    Append(@, Call("upload", ObjectKey(unixTime[r], body[r], 0)))]
                     /\ UNCHANGED ires
                [] nxt = "scan" ->
                     /\ ipc' = [ipc EXCEPT ![r] = "scan"]
                     /\ calls' = [calls EXCEPT ![r] = Append(@, Call("Scan", <<>>))]
                     /\ UNCHANGED ires
  /\ UNCHANGED <<now, bucket, body, files, unixTime, urls, tableCount, mail>>

\* lines 380-405: the upload of the image at index Len(urls) settles
UploadSettles(r) ==
  /\ UNCHANGED <<reposVars, formatVars, membershipVars>>
  /\ ipc[r] = "upload"
  /\ \E ok \in BOOLEAN :
       LET index == Len(urls[r])
           key == ObjectKey(unixTime[r], body[r], index)
           nxt == AfterUpload(ok, index, files[r].n)
       IN  /\ bucket' = IF ok THEN bucket \cup {key} ELSE bucket
           /\ urls' = [urls EXCEPT ![r] = IF ok THEN Append(@, getS3URL(key)) ELSE @]
           /\ failedAt' = [failedAt EXCEPT ![r] = IF ok THEN @ ELSE "upload"]
           /\ CASE nxt = "fail" ->
                     /\ ipc' = [ipc EXCEPT ![r] = "done"]
                     /\ ires' = [ires EXCEPT ![r] =
                                   Msg400("Failed to submit intake form assets to S3")]
                     /\ UNCHANGED calls
                [] nxt = "upload" ->
                     /\ ipc' = [ipc EXCEPT ![r] = "upload"]
                     /\ calls' = [calls EXCEPT ![r] =
                                    Append(@, Call("upload",
                                                   ObjectKey(unixTime[r], body[r], index + 1)))]
                     /\ UNCHANGED ires
                [] nxt = "updateItem" ->
                     /\ ipc' = [ipc EXCEPT ![r] = "updateItem"]
                     /\ calls' = [calls EXCEPT ![r] =
                                    Append(@, Call("UpdateItem",
                                                   PartitionKey(body[r])
                                                     \o <<toString(unixTime[r])>>))]
                     /\ UNCHANGED ires
  /\ UNCHANGED <<now, table, body, files, unixTime, tableCount, mail>>

\* lines 404-431: the record update settles
UpdateItemSettles(r) ==
  /\ UNCHANGED <<reposVars, formatVars, membershipVars>>
  /\ ipc[r] = "updateItem"
  /\ \E ok \in BOOLEAN :
       LET nxt == AfterUpdateItem(ok)
       IN  /\ table' = IF ok THEN UpdateItem(table, PartitionKey(body[r]), unixTime[r], urls[r])
                       ELSE table
           /\ failedAt' = [failedAt EXCEPT ![r] = IF ok THEN @ ELSE "UpdateItem"]
           /\ CASE nxt = "fail" ->
                     /\ ipc' = [ipc EXCEPT ![r] = "done"]
                     /\ ires' = [ires EXCEPT ![r] =
                                   Msg400("Failed to submit image URLs to DynamoDB")]
                     /\ UNCHANGED calls
                [] nxt = "scan" ->
                     /\ ipc' = [ipc EXCEPT ![r] = "scan"]
                     /\ calls' = [calls EXCEPT ![r] = Append(@, Call("Scan", <<>>))]
                     /\ UNCHANGED ires
  /\ UNCHANGED <<now, bucket, body, files, unixTime, urls, tableCount, mail>>

\* lines 431-458: the count settles; the notifications and the response follow
ScanSettles(r) ==
  /\ UNCHANGED <<reposVars, formatVars, membershipVars>>
  /\ ipc[r] = "scan"
  /\ \/ /\ tableCount' = [tableCount EXCEPT ![r] = Some(ScanCount(table))]
        /\ calls' = [calls EXCEPT ![r] = @ \o EmailCalls(body[r])]
        /\ \E m \in [1..Len(EmailCalls(body[r])) -> PostmarkOutcomes] :
             /\ mail' = [mail EXCEPT ![r] = m]
             /\ ires' = [ires EXCEPT ![r] =
                           IF AfterEmails(m) = "fail" THEN Msg400("Failed to send email")
                           ELSE Ok200(Some(ScanCount(table)))]
        /\ UNCHANGED failedAt
     \/ /\ failedAt' = [failedAt EXCEPT ![r] = "Scan"]
        /\ ires' = [ires EXCEPT ![r] = Ok200(tableCount[r])]
        /\ UNCHANGED <<tableCount, calls, mail>>
  /\ ipc' = [ipc EXCEPT ![r] = "done"]
  /\ UNCHANGED <<now, table, bucket, body, files, unixTime, urls>>

NextIntake ==
  \/ Tick
  \/ \E r \in Reqs : Receive(r)
  \/ \E r \in Reqs : PutItemSettles(r)
  \/ \E r \in Reqs : UploadSettles(r)
  \/ \E r \in Reqs : UpdateItemSettles(r)
  \/ \E r \in Reqs : ScanSettles(r)

\* ------------------------------------------------------ MembershipResolver
\* the resolver calls that may run at the same time
Calls == 1..MaxCalls

\* String.prototype.toLowerCase on a sequence of characters
toLowerCase(str) ==
  [i \in DOMAIN str |-> IF str[i] = "A" THEN "a" ELSE IF str[i] = "B" THEN "b" ELSE str[i]]

\* the address table and the team table, which the resolver only reads
AddressRows ==
  { [id |-> 1, ethAddress |-> <<"0", "x", "a">>],
    [id |-> 2, ethAddress |-> <<"0", "x", "b">>] }

TeamRows == {[id |-> 1, ownerAddress |-> [ethAddress |-> <<"0", "x", "a">>]]}

\* userAccessTokenPayload: null, or the address of the caller
PayloadSamples ==
  {None} \cup {Some([address |-> a]) :
                 a \in {<<"0", "x", "a">>, <<"0", "x", "A">>, <<"0", "x", "b">>}}

TeamIdSamples == {1, 2}

AddressSamples == {<<"0", "x", "b">>, <<"0", "x", "B">>, <<"0", "x", "c">>}

Ops == {"addNewMembership", "removeMembership", "acceptMembership"}

\* the arguments of a call; acceptMembership takes no address
ArgSamples ==
  [op : {"addNewMembership", "removeMembership"}, payload : PayloadSamples,
   teamId : TeamIdSamples, address : AddressSamples]
  \cup
  [op : {"acceptMembership"}, payload : PayloadSamples, teamId : TeamIdSamples,
   address : {<<>>}]

NoArgs == [op |-> "", payload |-> None, teamId |-> 0, address |-> <<>>]
NoResult == [membership |-> None, error |-> None]

\* membership rows a table may hold when the calls start
MembershipRows ==
  [teamId : {1}, addressId : {1, 2}, role : {"ADMIN"}, acceptanceStatus : {"PENDING"},
   joinedOn : {None}]
  \cup
  [teamId : {1}, addressId : {1, 2}, role : {"ADMIN"}, acceptanceStatus : {"ACCEPTED"},
   joinedOn : {Some(1)}]

\* @@unique teamId_addressId
UniqueKeys(tbl) ==
  \A x, y \in tbl : (x.teamId = y.teamId /\ x.addressId = y.addressId) => x = y

\* prisma.team.findUnique({ where: { id } }), prisma.address.findUnique({
\* where: { ethAddress } }), prisma.membership.findUnique({ where: {
\* teamId_addressId } }): the row, or null
teamFindUnique(id) == {t \in TeamRows : t.id = id}
addressFindUnique(ethAddress) == {a \in AddressRows : a.ethAddress = ethAddress}
membershipFindUnique(tbl, teamId, addressId) ==
  {m \in tbl : m.teamId = teamId /\ m.addressId = addressId}

\* a check that lets every caller through
NotTeamOwnerNever(team, payload) == FALSE

\* lines 238-240, 335-337: the caller is not the owner of the team
NotTeamOwner(team, payload) ==
  toLowerCase(team.ownerAddress.ethAddress) # toLowerCase(payload.address)

\* lines 472-483: prisma.membership.update({ where: { teamId_addressId }, data })
membershipUpdate(tbl, teamId, addressId, data) ==
  {IF m.teamId = teamId /\ m.addressId = addressId
     THEN [m EXCEPT !.acceptanceStatus = data.acceptanceStatus, !.joinedOn = data.joinedOn]
     ELSE m : m \in tbl}

\* lines 269-284: the row prisma.membership.create makes
newMembership(teamId, addressId) ==
  [teamId |-> teamId, addressId |-> addressId, role |-> "ADMIN",
   acceptanceStatus |-> "PENDING", joinedOn |-> None]

Failed(message) == [membership |-> None, error |-> Some(message)]
Succeeded(membership) == [membership |-> Some(membership), error |-> None]

\* no resolver call has been made
InitCalls ==
  /\ today = 1
  /\ mpc = [c \in Calls |-> "idle"]
  /\ args = [c \in Calls |-> NoArgs]
  /\ addressRecord = [c \in Calls |-> None]
  /\ result = [c \in Calls |-> NoResult]

Returns(c, payload) ==
  /\ mpc' = [mpc EXCEPT ![c] = "done"]
  /\ result' = [result EXCEPT ![c] = payload]

\* DateTime.now() advances
NextDay ==
  /\ UNCHANGED <<reposVars, intakeVars, formatVars>>
  /\ today < MaxDay
  /\ today' = today + 1
  /\ UNCHANGED <<memberships, mpc, args, addressRecord, result>>

\* lines 201-226, 298-323, 387-410: a call arrives; the payload is checked
\* and the team is asked for
Invoke(c) ==
  /\ UNCHANGED <<reposVars, intakeVars, formatVars>>
  /\ mpc[c] = "idle"
  /\ \E a \in ArgSamples :
       /\ args' = [args EXCEPT ![c] = a]
       /\ IF a.payload = None
            THEN Returns(c, Failed("Not authenticated"))
            ELSE /\ mpc' = [mpc EXCEPT ![c] = "team.findUnique"]
                 /\ UNCHANGED result
  /\ UNCHANGED <<today, memberships, addressRecord>>

\* lines 218-257, 315-354, 403-429: the team arrives; the owner is checked
\* (not by acceptMembership) and the address is asked for
TeamFindUniqueSettles(c) ==
  /\ UNCHANGED <<reposVars, intakeVars, formatVars>>
  /\ mpc[c] = "team.findUnique"
  /\ LET team == teamFindUnique(args[c].teamId)
     IN  IF team = None
           THEN Returns(c, Failed("Team not found for teamId"))
         ELSE IF /\ args[c].op # "acceptMembership"
                 /\ \E t \in team, p \in args[c].payload : NotTeamOwner(t, p)
           THEN Returns(c, Failed("Not authorized"))
         ELSE /\ mpc' = [mpc EXCEPT ![c] = "address.findUnique"]
              /\ UNCHANGED result
  /\ UNCHANGED <<today, memberships, args, addressRecord>>

\* the address looked up: the argument, or the caller's for acceptMembership
LookedUp(a) ==
  IF a.op = "acceptMembership"
    THEN toLowerCase((CHOOSE p \in a.payload : TRUE).address)
    ELSE toLowerCase(a.address)

\* lines 250-269, 347-366, 422-441: the address arrives; the write, or the
\* read of the membership, is sent
AddressFindUniqueSettles(c) ==
  /\ UNCHANGED <<reposVars, intakeVars, formatVars>>
  /\ mpc[c] = "address.findUnique"
  /\ LET found == addressFindUnique(LookedUp(args[c]))
     IN  /\ addressRecord' = [addressRecord EXCEPT ![c] = found]
         /\ IF found = None
              THEN Returns(c, Failed("Address not found for address"))
              ELSE /\ mpc' = [mpc EXCEPT ![c] =
                                CASE args[c].op = "addNewMembership" -> "membership.create"
                                  [] args[c].op = "removeMembership" -> "membership.delete"
                                  [] OTHER -> "membership.findUnique"]
                   /\ UNCHANGED result
  /\ UNCHANGED <<today, memberships, args>>

\* lines 269-294: the creation settles; it throws when the team and the
\* address already have a membership
MembershipCreateSettles(c) ==
  /\ UNCHANGED <<reposVars, intakeVars, formatVars>>
  /\ mpc[c] = "membership.create"
  /\ \E a \in addressRecord[c] :
       IF membershipFindUnique(memberships, args[c].teamId, a.id) # None
         THEN /\ mpc' = [mpc EXCEPT ![c] = "threw"]
              /\ UNCHANGED <<memberships, result>>
         ELSE /\ memberships' = memberships \cup {newMembership(args[c].teamId, a.id)}
              /\ Returns(c, Succeeded(newMembership(args[c].teamId, a.id)))
  /\ UNCHANGED <<today, args, addressRecord>>

\* lines 366-383: the deletion settles; it throws when there is no such
\* membership
MembershipDeleteSettles(c) ==
  /\ UNCHANGED <<reposVars, intakeVars, formatVars>>
  /\ mpc[c] = "membership.delete"
  /\ \E a \in addressRecord[c] :
       LET old == membershipFindUnique(memberships, args[c].teamId, a.id)
       IN  IF old = None
             THEN /\ mpc' = [mpc EXCEPT ![c] = "threw"]
                  /\ UNCHANGED <<memberships, result>>
             ELSE /\ memberships' = memberships \ old
                  /\ \E m \in old : Returns(c, Succeeded(m))
  /\ UNCHANGED <<today, args, addressRecord>>

\* lines 441-472: the membership arrives and its state is checked; the
\* update is sent
MembershipFindUniqueSettles(c) ==
  /\ UNCHANGED <<reposVars, intakeVars, formatVars>>
  /\ mpc[c] = "membership.findUnique"
  /\ \E a \in addressRecord[c] :
       LET membership == membershipFindUnique(memberships, args[c].teamId, a.id)
       IN  IF membership = None
             THEN Returns(c, Failed("Membership not found for team"))
           ELSE IF \E m \in membership : m.acceptanceStatus # "PENDING"
             THEN Returns(c, Failed("Membership is already accepted"))
           ELSE /\ mpc' = [mpc EXCEPT ![c] = "membership.update"]
                /\ UNCHANGED result
  /\ UNCHANGED <<today, memberships, args, addressRecord>>

\* lines 472-493: the update settles; it throws when there is no such
\* membership any more
MembershipUpdateSettles(c) ==
  /\ UNCHANGED <<reposVars, intakeVars, formatVars>>
  /\ mpc[c] = "membership.update"
  /\ \E a \in addressRecord[c] :
       IF membershipFindUnique(memberships, args[c].teamId, a.id) = None
         THEN /\ mpc' = [mpc EXCEPT ![c] = "threw"]
              /\ UNCHANGED <<memberships, result>>
         ELSE /\ memberships' =
                   membershipUpdate(memberships, args[c].teamId, a.id,
                                    [acceptanceStatus |-> "ACCEPTED", joinedOn |-> Some(today)])
              /\ \E m \in membershipFindUnique(memberships', args[c].teamId, a.id) :
                   Returns(c, Succeeded(m))
  /\ UNCHANGED <<today, args, addressRecord>>

NextMembership ==
  \/ NextDay
  \/ \E c \in Calls : Invoke(c)
  \/ \E c \in Calls : TeamFindUniqueSettles(c)
  \/ \E c \in Calls : AddressFindUniqueSettles(c)
  \/ \E c \in Calls : MembershipCreateSettles(c)
  \/ \E c \in Calls : MembershipDeleteSettles(c)
  \/ \E c \in Calls : MembershipFindUniqueSettles(c)
  \/ \E c \in Calls : MembershipUpdateSettles(c)

\* ------------------------------------------------------------- formatRepos
\* A string is here a sequence of characters.
FullNameSamples == {<<"o", "/", "a">>, <<"o", "/", "b">>, <<"p", "q", "/", "c", "d">>}

NoFormat == [state |-> "pending", value |-> <<>>]

\* String.prototype.split: the pieces of s between the occurrences of sep
RECURSIVE split(_, _)
split(s, sep) ==
  IF \A k \in DOMAIN s : s[k] # sep THEN <<s>>
  ELSE LET k == CHOOSE i \in DOMAIN s : s[i] = sep /\ \A j \in 1..(i - 1) : s[j] # sep
       IN  <<SubSeq(s, 1, k - 1)>> \o split(SubSeq(s, k + 1, Len(s)), sep)

\* `${repos[i].full_name.split('/')[1]}`, i counted from zero
RepoName(rs, i) ==
  LET parts == split(rs[i + 1], "/")
  IN  IF Len(parts) >= 2 THEN parts[2]
      ELSE <<"u", "n", "d", "e", "f", "i", "n", "e", "d">>

\* a loop that never prefixes the last name with "and"
RECURSIVE formatReposLoopNoAnd(_, _, _)
formatReposLoopNoAnd(rs, i, str) ==
  IF ~(i < Len(rs)) THEN str
  ELSE IF i < ListedRepos
    THEN formatReposLoopNoAnd(rs, i + 1, str \o <<",", " ">> \o RepoName(rs, i))
  ELSE str \o <<",", " ", "a", "n", "d", " ", toString(Len(rs) - ListedRepos),
                     " ", "m", "o", "r", "e">>

\* lines 246-255: the loop from index i on, str being `response` so far
RECURSIVE formatReposLoop(_, _, _)
formatReposLoop(rs, i, str) ==
  IF ~(i < Len(rs)) THEN str
  ELSE IF i + 1 = Len(rs)
    THEN formatReposLoop(rs, i + 1,
                         str \o <<",", " ", "a", "n", "d", " ">> \o RepoName(rs, i))
  ELSE IF i < ListedRepos
    THEN formatReposLoop(rs, i + 1, str \o <<",", " ">> \o RepoName(rs, i))
  ELSE str \o <<",", " ", "a", "n", "d", " ", toString(Len(rs) - ListedRepos),
                     " ", "m", "o", "r", "e">>

\* lines 244-257: repos[0] of an empty list is undefined, reading its
\* full_name throws
formatRepos(rs) ==
  IF rs = <<>> THEN [state |-> "threw", value |-> <<>>]
  ELSE [state |-> "returned", value |-> formatReposLoop(rs, 1, RepoName(rs, 0))]

InitFormat ==
  /\ InitRepos
  /\ InitIntake
  /\ InitCalls /\ memberships = {}
  /\ \E k \in 0..MaxRepoList : fmtRepos \in [1..k -> FullNameSamples]
  /\ fmtResult = NoFormat

CallFormatRepos ==
  /\ UNCHANGED <<reposVars, intakeVars, membershipVars>>
  /\ fmtResult.state = "pending"
  /\ fmtResult' = formatRepos(fmtRepos)
  /\ UNCHANGED fmtRepos

NextFormat == CallFormatRepos

Init ==
  /\ InitRepos
  /\ InitIntake
  /\ fmtRepos = <<>> /\ fmtResult = NoFormat
  /\ InitCalls /\ memberships = {}

\* the membership table holds any rows with distinct keys
InitMembership ==
  /\ InitRepos
  /\ InitIntake
  /\ fmtRepos = <<>> /\ fmtResult = NoFormat
  /\ InitCalls
  /\ memberships \in {tbl \in SUBSET MembershipRows : UniqueKeys(tbl)}

SpecRepos == Init /\ [][NextRepos]_vars

SpecIntake == Init /\ [][NextIntake]_vars

SpecFormat == InitFormat /\ [][NextFormat]_vars

SpecMembership == InitMembership /\ [][NextMembership]_vars

\* ------------------------------------------------- GET /github/repos: claims
Done200 == pc = "done" /\ response.status = 200

Range(s) == {s[i] : i \in DOMAIN s}

\* the raw record an output record was mapped from, found by its name
IsForkAt(n) ==
  IF n.src = "pr" THEN publicPrs[n.pos].isFork
  ELSE IF n.src = "user" THEN repos[n.pos].fork
  ELSE orgsWithRepos[n.org][n.pos].fork

ListingAt(n) == IF n.src = "user" THEN repos[n.pos] ELSE orgsWithRepos[n.org][n.pos]

MappedAt(n) ==
  IF n.src = "pr" THEN getMappedPrRepo(publicPrs[n.pos])
  ELSE IF n.src = "user" THEN getMappedRepo(repos[n.pos])
  ELSE getMappedOrgRepo(orgsWithRepos[n.org][n.pos])

OutputIds == {r.githubRepoId : r \in Range(response.repos)}
PrIds == {e.databaseId : e \in {x \in Range(publicPrs) : ~x.isFork}}
UserIds == {r.id : r \in Range(repos)}
OrgIds == {r.id : r \in Range(Flatten(orgsWithRepos))}

\* the first record of a listing with the given id
FirstWith(list, id) ==
  list[CHOOSE i \in DOMAIN list :
         /\ list[i].id = id
         /\ \A j \in 1..(i - 1) : list[j].id # id]

Eligible(repo) == ~repo.fork /\ ~TooFewStars(repo) /\ hasPermission(repo)

\* C1: the list returned with status 200 holds no two records with the same
\* githubRepoId, whatever the three sources returned.
Thm_C1_UniqueIds ==
  Done200 =>
    \A i, j \in DOMAIN response.repos :
      i # j => response.repos[i].githubRepoId # response.repos[j].githubRepoId

\* an id returned by all three sources, and emitted
Wit_C1_UniqueIds ==
  /\ Done200
  /\ \E id \in Ids : id \in PrIds /\ id \in UserIds /\ id \in OrgIds /\ id \in OutputIds

\* an id that the personal and an organization listing both hold and no
\* PR-sourced record has
InBothListings(id) == id \in UserIds /\ id \in OrgIds /\ id \notin PrIds

\* C2 as stated: for an id in both listings the personal record wins: no
\* organization record with that id is emitted, and the personal record is
\* emitted when it is eligible.
Orig_C2_PersonalWins ==
  Done200 =>
    \A id \in Ids :
      InBothListings(id) =>
        /\ \A r \in Range(mappedOrgRepos) : r.githubRepoId # id
        /\ Eligible(FirstWith(repos, id)) =>
             \E r \in Range(mappedRepos) : r.githubRepoId = id

\* C2 amended: for an id in both listings the organization record wins: the
\* personal record is never emitted, and the id is emitted, from the first
\* organization record with it, exactly when that record is eligible.
Thm_C2_OrgWins ==
  Done200 =>
    \A id \in Ids :
      InBothListings(id) =>
        /\ \A r \in Range(mappedRepos) : r.githubRepoId # id
        /\ \A r \in Range(mappedOrgRepos) :
             r.githubRepoId = id => r.name = FirstWith(Flatten(orgsWithRepos), id).name
        /\ (\E r \in Range(mappedOrgRepos) : r.githubRepoId = id)
             <=> Eligible(FirstWith(Flatten(orgsWithRepos), id))

\* an id whose personal and organization records are both eligible
Wit_C2_OrgWins ==
  /\ Done200
  /\ \E id \in Ids :
       /\ InBothListings(id)
       /\ Eligible(FirstWith(repos, id))
       /\ Eligible(FirstWith(Flatten(orgsWithRepos), id))
       /\ \E r \in Range(mappedOrgRepos) : r.githubRepoId = id

\* the first non-fork PR record with the given id
FirstPrWith(id) ==
  publicPrs[CHOOSE i \in DOMAIN publicPrs :
              /\ publicPrs[i].databaseId = id /\ ~publicPrs[i].isFork
              /\ \A j \in 1..(i - 1) : publicPrs[j].databaseId # id \/ publicPrs[j].isFork]

\* C3: every id of a non-fork PR record is emitted exactly once, in the PR
\* segment (after the personal and organization segments), as the mapping of
\* its first non-fork PR record, whatever its stars and permission level and
\* whatever the listings hold.
Thm_C3_PrExempt ==
  Done200 =>
    \A id \in PrIds :
      /\ Cardinality({k \in DOMAIN response.repos : response.repos[k].githubRepoId = id}) = 1
      /\ \A k \in DOMAIN response.repos :
           response.repos[k].githubRepoId = id =>
             /\ k > Len(mappedRepos) + Len(mappedOrgRepos)
             /\ response.repos[k] = getMappedPrRepo(FirstPrWith(id))
             /\ response.repos[k].name.src = "pr"

\* a PR record with no stars and READ permission whose id both listings hold
Wit_C3_PrExempt ==
  /\ Done200
  /\ \E id \in PrIds :
       /\ FirstPrWith(id).viewerPermission = "READ"
       /\ FirstPrWith(id).stargazerCount = 0
       /\ id \in UserIds /\ id \in OrgIds
       /\ \E r \in Range(response.repos) : r.githubRepoId = id

\* the table of the specification: a level sets its own flag and every lower one
TierRank(x) ==
  CASE x \in {"ADMIN", "admin"} -> 5
    [] x \in {"MAINTAIN", "maintain"} -> 4
    [] x \in {"WRITE", "push"} -> 3
    [] x \in {"TRIAGE", "triage"} -> 2
    [] x \in {"READ", "pull"} -> 1
    [] OTHER -> 0

\* C4: the permissions of every PR-sourced record are the cumulative tiers of
\* its permission level: a flag is true exactly when the level is at least
\* the flag's tier.
Orig_C4_CumulativeTiers ==
  \A r \in Range(mappedPrRepos) :
    \A p \in r.permissions :
      \A f \in Flags :
        p[f] <=> TierRank(publicPrs[r.name.pos].viewerPermission) >= TierRank(f)

\* C5: no record marked as a fork is in the returned list, whichever source
\* it came from.
Thm_C5_NoForks ==
  Done200 => \A r \in Range(response.repos) : ~IsForkAt(r.name)

\* a fork in the PR search and a fork in a listing, and a non-empty list
Wit_C5_NoForks ==
  /\ Done200
  /\ \E e \in Range(publicPrs) : e.isFork
  /\ \E r \in Range(repos) \cup Range(Flatten(orgsWithRepos)) : r.fork
  /\ response.repos # <<>>

\* C6: every returned record taken from the personal or an organization
\* listing has a star count of at least MinStars and one of admin, maintain,
\* push; a record without star count or without permissions is not returned.
Thm_C6_StarsAndPermission ==
  Done200 =>
    \A r \in Range(response.repos) :
      r.name.src \in {"user", "org"} =>
        /\ \E n \in ListingAt(r.name).stargazers_count : n >= MinStars
        /\ \E p \in ListingAt(r.name).permissions : p.admin \/ p.maintain \/ p.push

\* a listing record is returned while records without stars and without
\* permissions were listed
Wit_C6_StarsAndPermission ==
  /\ Done200
  /\ \E r \in Range(response.repos) : r.name.src \in {"user", "org"}
  /\ \E r \in Range(repos) \cup Range(Flatten(orgsWithRepos)) :
       ~r.fork /\ r.stargazers_count = None
  /\ \E r \in Range(repos) \cup Range(Flatten(orgsWithRepos)) :
       ~r.fork /\ r.permissions = None

SegmentRank(n) == IF n.src = "user" THEN 1 ELSE IF n.src = "org" THEN 2 ELSE 3

Before(a, b) ==
  \/ SegmentRank(a) < SegmentRank(b)
  \/ /\ SegmentRank(a) = SegmentRank(b)
     /\ \/ a.org < b.org
        \/ a.org = b.org /\ a.pos < b.pos

\* C7: the returned list is the personal segment, then the organization
\* segment, then the PR segment, each in the order of its source, and every
\* record is the mapping of the source record of its own segment.
Thm_C7_SegmentOrder ==
  Done200 =>
    /\ \A i, j \in DOMAIN response.repos :
         i < j => Before(response.repos[i].name, response.repos[j].name)
    /\ \A i \in DOMAIN response.repos : response.repos[i] = MappedAt(response.repos[i].name)
    /\ Len(response.repos) = Len(mappedRepos) + Len(mappedOrgRepos) + Len(mappedPrRepos)

\* a list with a record of each segment
Wit_C7_SegmentOrder ==
  /\ Done200
  /\ \E r \in Range(response.repos) : r.name.src = "user"
  /\ \E r \in Range(response.repos) : r.name.src = "org"
  /\ \E r \in Range(response.repos) : r.name.src = "pr"

\* C8: whenever a GitHub call of the request has failed, the request is
\* answered 400 without a repository list.
Orig_C8_FailureGives400 ==
  error # "" => response.status = 400 /\ response.repos = <<>>

\* C23 as stated: no id is added to foundRepoIds before the organization
\* fetches have all joined.
Orig_C23_OnlyAfterJoin ==
  [][foundRepoIds' # foundRepoIds =>
       /\ pc = "promiseAll"
       /\ \A i \in DOMAIN orgFetch : orgFetch[i] = "ok"]_vars

\* C23 amended: foundRepoIds changes only in the PR pass, before any
\* organization fetch has started, and in the merge after every fetch has
\* joined; it never changes while a fetch is in flight.
Thm_C23_NeverWhileInFlight ==
  [][foundRepoIds' # foundRepoIds =>
       /\ \A i \in DOMAIN orgFetch : orgFetch[i] # "inflight"
       /\ \/ pc = "graphql" /\ orgFetch = <<>>
          \/ /\ pc = "promiseAll" /\ pc' = "done"
             /\ \A i \in DOMAIN orgFetch : orgFetch[i] = "ok"]_vars

\* ids were added by the PR pass and by the merge after two fetches joined
Wit_C23_NeverWhileInFlight ==
  /\ Done200
  /\ Len(orgFetch) = 2
  /\ PrIds # {}
  /\ \E id \in OrgIds : id \notin PrIds /\ id \in foundRepoIds

\* the records of the two listings in the order they are examined
Examined == Flatten(orgsWithRepos) \o repos

\* C24: the organization and personal passes mark an id as seen before the
\* fork, star and permission checks, so the first examined record with an id
\* alone decides whether the id is returned, also when that record is
\* rejected and a later one is eligible; a fork among the PR records is
\* rejected without its id being marked.
Thm_C24_MarkedBeforeChecks ==
  Done200 =>
    \A id \in Ids :
      /\ id \in OrgIds \cup UserIds => id \in foundRepoIds
      /\ (id \in OrgIds \cup UserIds /\ id \notin PrIds) =>
           (id \in OutputIds <=> Eligible(FirstWith(Examined, id)))
      /\ (id \notin OrgIds \cup UserIds /\ id \notin PrIds) => id \notin foundRepoIds
      /\ (\E e \in Range(publicPrs) : e.isFork /\ e.databaseId = id) =>
           id \in rejectedRepoIds

\* the organization record of an id was rejected, its personal record is
\* eligible, and the id is not returned
Wit_C24_MarkedBeforeChecks ==
  /\ Done200
  /\ \E id \in Ids :
       /\ id \in OrgIds /\ id \in UserIds /\ id \notin PrIds
       /\ ~Eligible(FirstWith(Flatten(orgsWithRepos), id))
       /\ Eligible(FirstWith(repos, id))
       /\ id \notin OutputIds

\* -------------------------------------------------- POST /intake-form: claims
\* the first of the three checks the input fails, in the order form fields,
\* repo-selection list, attached images
FirstFailedCheck(b, f) ==
  IF ~IntakeFormSchemaOk(b) THEN "form"
  ELSE IF ~(JSONParses(b) /\ IntakeFormReposSchemaOk(b)) THEN "repos"
  ELSE IF ~IntakeFormImageFilesSchemaOk(f) THEN "files"
  ELSE "ok"

\* C9: a request whose input fails one of the three checks is answered 400
\* with the issues of the first check that fails, and makes no call to the
\* record store, the object storage or the notification service.
Orig_C9_ValidationFails ==
  \A r \in Reqs :
    (ipc[r] # "idle" /\ FirstFailedCheck(body[r], files[r]) # "ok") =>
      /\ ires[r].status = 400
      /\ ires[r].issues = FirstFailedCheck(body[r], files[r])
      /\ calls[r] = <<>>

\* C10: a request whose record write failed is answered 400 and has made no
\* call but that write: no upload, no update, no count, no notification.
Thm_C10_PutItemFails ==
  \A r \in Reqs :
    failedAt[r] = "PutItem" =>
      /\ ipc[r] = "done"
      /\ ires[r].status = 400
      /\ ires[r].queueNumber = None
      /\ Len(calls[r]) = 1 /\ calls[r][1].op = "PutItem"
      /\ urls[r] = <<>>

\* the write of a request with images failed
Wit_C10_PutItemFails ==
  \E r \in Reqs : failedAt[r] = "PutItem" /\ files[r].n > 0 /\ ipc[r] = "done"

\* the key of the record of request r, `${email}-${githubHandle}` and timestamp
OwnPk(r) == body[r].email \o <<"-">> \o body[r].githubHandle

OwnItems(r) == {x \in table : x.pk = OwnPk(r) /\ x.ts = unixTime[r]}

\* the object key of the image at index i of request r
OwnObjectKey(r, i) ==
  <<toString(unixTime[r]), "-">> \o body[r].githubHandle \o <<"-">> \o body[r].email
    \o <<"-", toString(i)>>

HasCalled(r, op) == \E i \in DOMAIN calls[r] : calls[r][i].op = op

\* the record write of request r succeeded
Persisted(r) == calls[r] # <<>> /\ ipc[r] # "putItem" /\ failedAt[r] # "PutItem"

\* C11: the images are uploaded one at a time in increasing index order; when
\* the upload at index k fails the request is answered 400, its calls are the
\* record write and the uploads of the indices 0..k and nothing else (no
\* later upload, no update, no count, no notification), and the step that
\* meets the failure leaves the table as it is, the record of the request in
\* it.
Thm_C11_UploadFails ==
  [][\A r \in Reqs :
       /\ (failedAt[r] = "upload")' =>
            (LET k == Len(urls[r])
             IN  /\ ipc[r] = "done"
                 /\ ires[r].status = 400
                 /\ ires[r].queueNumber = None
                 /\ k < files[r].n
                 /\ Len(calls[r]) = k + 2
                 /\ calls[r][1].op = "PutItem"
                 /\ \A i \in 0..k :
                      calls[r][i + 2] = [op |-> "upload", arg |-> OwnObjectKey(r, i)]
                 /\ mail[r] = <<>>)'
       /\ (ipc[r] = "upload" /\ failedAt'[r] = "upload") =>
            /\ table' = table
            /\ OwnItems(r) # {}]_vars

\* the first of two uploads failed
Wit_C11_UploadFails ==
  \E r \in Reqs :
    /\ failedAt[r] = "upload" /\ files[r].n = 2 /\ urls[r] = <<>>
    /\ \E x \in OwnItems(r) : x.images = None

\* C12: a request whose count failed is answered 200 with an undefined
\* queueNumber after both notifications were dispatched.
Orig_C12_CountFailsStillNotifies ==
  \A r \in Reqs :
    (failedAt[r] = "Scan" /\ body[r].repos = "list") =>
      /\ ires[r].status = 200
      /\ ires[r].queueNumber = None
      /\ HasCalled(r, "sendEmailWithTemplate")
      /\ HasCalled(r, "sendEmail")

\* C13: once the record write, the uploads, the update and the count of a
\* request succeeded, the request is answered 200 with the count as its
\* queueNumber, however the notifications end.
Thm_C13_NotificationNeverFails ==
  \A r \in Reqs :
    (ipc[r] = "done" /\ HasCalled(r, "Scan") /\ failedAt[r] = "") =>
      /\ ires[r].status = 200
      /\ tableCount[r] # None
      /\ ires[r].queueNumber = tableCount[r]

\* both notifications of an answered request were rejected
Wit_C13_NotificationNeverFails ==
  \E r \in Reqs :
    /\ ipc[r] = "done" /\ failedAt[r] = ""
    /\ mail[r] = <<"rejects", "rejects">>
    /\ ires[r].status = 200

\* C16: when the count of a request without images succeeds, the request is
\* answered 200 with a queueNumber that is the number of incomplete records
\* in the table at that moment; its own record is one of them, so the
\* queueNumber is at least 1.
Thm_C16_QueueNumberCountsOwn ==
  [][\A r \in Reqs :
       (ipc[r] = "scan" /\ ipc'[r] = "done" /\ files[r].n = 0 /\ failedAt'[r] = "") =>
         LET incomplete == {x \in table : x.isComplete = Some(FALSE)}
         IN  /\ ires'[r].status = 200
             /\ ires'[r].queueNumber = Some(Cardinality(incomplete))
             /\ OwnItems(r) # {}
             /\ OwnItems(r) \subseteq incomplete
             /\ Cardinality(incomplete) >= 1]_vars

\* a request without images was answered with queueNumber 2
Wit_C16_QueueNumberCountsOwn ==
  \E r \in Reqs :
    /\ ipc[r] = "done" /\ files[r].n = 0 /\ failedAt[r] = ""
    /\ ires[r].status = 200
    /\ ires[r].queueNumber = Some(2)

\* C17: two requests with the same email and githubHandle whose record
\* writes both succeeded have two distinct records in the table.
Orig_C17_DistinctRecords ==
  \A r, q \in Reqs :
    (/\ r # q
     /\ Persisted(r) /\ Persisted(q)
     /\ body[r].email = body[q].email
     /\ body[r].githubHandle = body[q].githubHandle) =>
      /\ OwnItems(r) # {} /\ OwnItems(q) # {}
      /\ OwnItems(r) # OwnItems(q)

\* C18: a request whose handler has run to its end was sent one response,
\* 200 or 400.
Orig_C18_AlwaysResponds ==
  \A r \in Reqs : ipc[r] \in {"done", "threw"} => ires[r].status \in {200, 400}

\* the record write of request r, the uploads of all its images and, when it
\* has images, the record update succeeded
StagesSucceeded(r) ==
  /\ Persisted(r)
  /\ Len(urls[r]) = files[r].n
  /\ ipc[r] \notin {"upload", "updateItem"}
  /\ failedAt[r] \notin {"upload", "UpdateItem"}

ExpectedUrls(r) == [i \in 1..files[r].n |-> getS3URL(OwnObjectKey(r, i - 1))]

\* C19: a request answered 200 had its record written and, when it has n >= 1
\* images, all n uploaded and its record updated with the n URLs of the
\* object keys timestamp-githubHandle-email-i in index order; and a request
\* whose stages all succeeded is answered 200 however the count and the
\* notifications end.
Thm_C19_OkIffStagesSucceeded ==
  [][\A r \in Reqs :
       /\ (ires[r].status = 200)' => (StagesSucceeded(r) /\ urls[r] = ExpectedUrls(r))'
       /\ (ipc[r] = "done" /\ StagesSucceeded(r))' => (ires[r].status = 200)'
       /\ (ipc[r] = "updateItem" /\ ipc'[r] = "scan") =>
            /\ files[r].n >= 1
            /\ \E x \in table' :
                 /\ x.pk = OwnPk(r) /\ x.ts = unixTime[r]
                 /\ x.images = Some(ExpectedUrls(r))]_vars

\* a request with two images was answered 200 although its count failed
Wit_C19_OkIffStagesSucceeded ==
  \E r \in Reqs :
    /\ ires[r].status = 200 /\ files[r].n = 2 /\ failedAt[r] = "Scan"
    /\ HasCalled(r, "UpdateItem")

\* C20: a request issues the record update exactly when it has an image and
\* all its uploads succeeded, for the key its record write used; when the
\* update fails the request is answered 400, makes no count and no
\* notification, and the table stays as it is, the record of the request in
\* it.
Thm_C20_UpdateItem ==
  [][\A r \in Reqs :
       /\ (HasCalled(r, "UpdateItem") <=>
             (Persisted(r) /\ files[r].n >= 1 /\ Len(urls[r]) = files[r].n))'
       /\ \A i \in DOMAIN calls'[r] :
            calls'[r][i].op = "UpdateItem" =>
              /\ calls'[r][1].op = "PutItem"
              /\ calls'[r][i].arg = calls'[r][1].arg
              /\ calls'[r][i].arg = (OwnPk(r) \o <<toString(unixTime[r])>>)'
       /\ (failedAt[r] = "UpdateItem")' =>
            (/\ ipc[r] = "done"
             /\ ires[r].status = 400
             /\ ires[r].queueNumber = None
             /\ ~HasCalled(r, "Scan")
             /\ ~HasCalled(r, "sendEmailWithTemplate") /\ ~HasCalled(r, "sendEmail")
             /\ mail[r] = <<>>)'
       /\ (ipc[r] = "updateItem" /\ failedAt'[r] = "UpdateItem") =>
            /\ table' = table
            /\ OwnItems(r) # {}]_vars

\* the update of a request with two images failed
Wit_C20_UpdateItem ==
  \E r \in Reqs :
    /\ failedAt[r] = "UpdateItem" /\ files[r].n = 2 /\ Len(urls[r]) = 2
    /\ \E x \in OwnItems(r) : x.images = None

\* C21: a request whose count succeeded has triggered both messages, the
\* templated one to the submitter's email and the plain one to the fixed
\* operations address.
Orig_C21_BothMessages ==
  \A r \in Reqs :
    (ipc[r] = "done" /\ HasCalled(r, "Scan") /\ failedAt[r] = "") =>
      /\ \E i \in DOMAIN calls[r] :
           calls[r][i] = [op |-> "sendEmailWithTemplate", arg |-> body[r].email]
      /\ \E i \in DOMAIN calls[r] :
           calls[r][i] = [op |-> "sendEmail", arg |-> <<"team@gitpoap.io">>]

\* the items of the table with another key than that of request r
OtherItems(tbl, r) == {x \in tbl : ~(x.pk = OwnPk(r) /\ x.ts = unixTime[r])}

CountCalls(r, op) == Cardinality({i \in DOMAIN calls[r] : calls[r][i].op = op})

\* C22: a request writes its record at most once, with isComplete false and
\* no image URLs, updates it at most once, after the write and only in its
\* images, and changes the table in no other step: no item is deleted and no
\* other field is changed.
Thm_C22_RecordLifecycle ==
  [][\A r \in Reqs :
       /\ CountCalls(r, "PutItem")' <= 1
       /\ CountCalls(r, "UpdateItem")' <= 1
       /\ HasCalled(r, "UpdateItem")' => (calls[r][1].op = "PutItem" /\ Persisted(r))'
       /\ (ipc[r] # ipc'[r] /\ table' # table) =>
            /\ OtherItems(table', r) = OtherItems(table, r)
            /\ \/ /\ ipc[r] = "putItem"
                  /\ OwnItems(r)' = {[pk |-> OwnPk(r), ts |-> unixTime[r], images |-> None,
                                      isComplete |-> Some(FALSE)]}
               \/ /\ ipc[r] = "updateItem"
                  /\ \E x \in OwnItems(r) :
                       OwnItems(r)' = {[x EXCEPT !.images = Some(urls[r])]}]_vars

\* the record of a request answered 200 holds its two image URLs and is
\* still incomplete
Wit_C22_RecordLifecycle ==
  \E r \in Reqs :
    /\ ipc[r] = "done" /\ ires[r].status = 200 /\ files[r].n = 2
    /\ \E x \in OwnItems(r) : x.images = Some(urls[r]) /\ x.isComplete = Some(FALSE)


\* ------------------------------------------------------ formatRepos: claims
\* the part of a full_name after the slash that ends the owner
NameAfterSlash(fn) ==
  LET k == CHOOSE i \in DOMAIN fn : fn[i] = "/" /\ \A j \in 1..(i - 1) : fn[j] # "/"
  IN  SubSeq(fn, k + 1, Len(fn))

NamesOf(rs) == [i \in DOMAIN rs |-> NameAfterSlash(rs[i])]

\* the strings of a non-empty list joined by ", "
RECURSIVE CommaJoined(_)
CommaJoined(names) ==
  IF Len(names) = 1 THEN names[1]
  ELSE CommaJoined(SubSeq(names, 1, Len(names) - 1)) \o <<",", " ">> \o names[Len(names)]

\* C14: for six repositories or more formatRepos returns the first five
\* names joined by ", " followed by ", and K more", K the number of
\* repositories less five.
Orig_C14_MoreThanFive ==
  (fmtResult.state # "pending" /\ Len(fmtRepos) > 5) =>
    /\ fmtResult.state = "returned"
    /\ fmtResult.value =
         CommaJoined(SubSeq(NamesOf(fmtRepos), 1, 5))
           \o <<",", " ", "a", "n", "d", " ", toString(Len(fmtRepos) - 5),
                " ", "m", "o", "r", "e">>

\* C15: for one repository formatRepos returns its name; for two to five it
\* returns the names joined by ", ", the last one prefixed by "and "; a name
\* is the part of full_name after the owner's slash.
Thm_C15_UpToFive ==
  (fmtResult.state # "pending" /\ Len(fmtRepos) \in 1..5) =>
    /\ fmtResult.state = "returned"
    /\ fmtResult.value =
         IF Len(fmtRepos) = 1 THEN NameAfterSlash(fmtRepos[1])
         ELSE CommaJoined(SubSeq(NamesOf(fmtRepos), 1, Len(fmtRepos) - 1))
                \o <<",", " ", "a", "n", "d", " ">>
                \o NameAfterSlash(fmtRepos[Len(fmtRepos)])

\* "a, b, and cd" was returned for three repositories
Wit_C15_UpToFive ==
  /\ Len(fmtRepos) = 3
  /\ fmtResult.state = "returned"
  /\ fmtResult.value = <<"a", ",", " ", "b", ",", " ", "a", "n", "d", " ", "c", "d">>

\* ----------------------------------------------- MembershipResolver: claims
\* the membership of the team and the address record of call c
MembershipOf(tbl, c) ==
  {m \in tbl : m.teamId = args[c].teamId /\ \E a \in addressRecord[c] : m.addressId = a.id}

\* C25: the update of an acceptMembership call is applied only to a
\* membership that is PENDING, so a membership is accepted, and its joinedOn
\* set, by at most one call.
Orig_C25_AcceptsOnlyPending ==
  [][\A c \in Calls :
       (mpc[c] = "membership.update" /\ mpc'[c] = "done") =>
         \E m \in MembershipOf(memberships, c) : m.acceptanceStatus = "PENDING"]_vars

\* the conditions under which a call may change the table: the caller is
\* authenticated, the team exists, the caller's address is the team owner's
\* up to case, and the target address exists
MayChange(a) ==
  /\ a.payload # None
  /\ \E t \in TeamRows :
       /\ t.id = a.teamId
       /\ \E p \in a.payload :
            toLowerCase(t.ownerAddress.ethAddress) = toLowerCase(p.address)
  /\ \E r \in AddressRows : r.ethAddress = toLowerCase(a.address)

\* C26: a step of an addNewMembership or removeMembership call changes the
\* membership table only when the caller is authenticated, the team exists,
\* the caller is its owner up to case and the target address exists; a call
\* for which one of these fails leaves the table as it is and returns a null
\* membership and an error; a membership that addNewMembership creates is
\* PENDING.
Thm_C26_OnlyOwnerChanges ==
  [][\A c \in Calls :
       (mpc'[c] # mpc[c] /\ args'[c].op \in {"addNewMembership", "removeMembership"}) =>
         /\ memberships' # memberships => MayChange(args'[c])
         /\ ~MayChange(args'[c]) =>
              /\ mpc'[c] \in {"done", "team.findUnique", "address.findUnique"}
              /\ mpc'[c] = "done" =>
                   (result'[c].membership = None /\ result'[c].error # None)
         /\ args'[c].op = "addNewMembership" =>
              \A m \in memberships' \ memberships :
                /\ m.acceptanceStatus = "PENDING"
                /\ m.teamId = args'[c].teamId
                /\ \E r \in AddressRows :
                     r.ethAddress = toLowerCase(args'[c].address) /\ m.addressId = r.id
         /\ args'[c].op = "removeMembership" =>
              /\ memberships' \subseteq memberships
              /\ \A m \in memberships \ memberships' :
                   /\ m.teamId = args'[c].teamId
                   /\ \E r \in AddressRows :
                        r.ethAddress = toLowerCase(args'[c].address) /\ m.addressId = r.id]_vars

\* the owner, signed in with an upper-case address, added a membership for
\* an address given in upper case, and a call by another address was refused
Wit_C26_OnlyOwnerChanges ==
  /\ \E c \in Calls :
       /\ args[c].op = "addNewMembership"
       /\ args[c].payload = Some([address |-> <<"0", "x", "A">>])
       /\ args[c].address = <<"0", "x", "B">>
       /\ mpc[c] = "done"
       /\ result[c].error = None
       /\ \E m \in result[c].membership : m.acceptanceStatus = "PENDING" /\ m \in memberships
  /\ \E c \in Calls :
       /\ args[c].op = "removeMembership"
       /\ mpc[c] = "done"
       /\ result[c] = Failed("Not authorized")

====
